---- MODULE Spec2Model ----
(***************************************************************************)
(* Model of the duplicate-question detector, src/src/lib/duplicate-        *)
(* detector.ts: normalizeText, tokenize, the four similarity metrics, the  *)
(* adaptive threshold policy of areSimilar and the greedy driver           *)
(* removeDuplicates.                                                       *)
(*                                                                         *)
(* A string is a sequence of one-character strings.  A number of the code   *)
(* is an IEEE-754 double; the model keeps a double d, 0 <= d < 2, as the    *)
(* five digits to base 2^16 of d (one integer digit and four fraction       *)
(* digits), and rounds every division, sum and difference to 53            *)
(* significant bits, to nearest, ties to even, as the code's arithmetic    *)
(* does.                                                                   *)
(***************************************************************************)
EXTENDS Integers, Sequences, FiniteSets, TLC

Max(x, y) == IF x >= y THEN x ELSE y
Min(x, y) == IF x <= y THEN x ELSE y
Range(s) == {s[i] : i \in 1..Len(s)}

(***************************************************************************)
(* Characters.                                                             *)
(***************************************************************************)
UpperCase ==
  <<"A","B","C","D","E","F","G","H","I","J","K","L","M",
    "N","O","P","Q","R","S","T","U","V","W","X","Y","Z">>
LowerCase ==
  <<"a","b","c","d","e","f","g","h","i","j","k","l","m",
    "n","o","p","q","r","s","t","u","v","w","x","y","z">>

\* The characters of the punctuation class of normalizeText (Unicode
\* punctuation and the listed symbols) that the texts of the model use.
Punctuation ==
  {"?", ".", ",", "!", ":", ";", "-", "(", ")",
   "$", "+", "<", "=", ">", "^", "|", "~"}

\* The whitespace characters (class \s) that the texts of the model use.
Whitespace == {" ", "\t", "\n"}

\* The letter U+211D, double-struck capital R, taken as one character: an
\* uppercase letter (category Lu) that has no lowercase form, so that
\* toLowerCase leaves it as it is.
DoubleStruckR == "U+211D"

lowerChar(c) ==
  IF \E k \in 1..Len(UpperCase) : UpperCase[k] = c
  THEN LowerCase[CHOOSE k \in 1..Len(UpperCase) : UpperCase[k] = c]
  ELSE c

toLowerCase(s) == [i \in 1..Len(s) |-> lowerChar(s[i])]

isPunctuation(c) == c \in Punctuation
isSpace(c) == c \in Whitespace

\* .replace(<punctuation class>, "")
stripPunctuation(s) == SelectSeq(s, LAMBDA c : ~isPunctuation(c))

\* .replace(/\s+/g, " "): every maximal run of whitespace becomes one space.
RECURSIVE collapseFrom(_, _)
collapseFrom(s, i) ==
  IF i > Len(s) THEN <<>>
  ELSE IF isSpace(s[i])
       THEN IF i > 1 /\ isSpace(s[i - 1])
            THEN collapseFrom(s, i + 1)
            ELSE <<" ">> \o collapseFrom(s, i + 1)
       ELSE <<s[i]>> \o collapseFrom(s, i + 1)

collapseSpaces(s) == collapseFrom(s, 1)

\* String.prototype.trim
RECURSIVE trimStart(_)
trimStart(s) ==
  IF s # <<>> /\ isSpace(Head(s)) THEN trimStart(Tail(s)) ELSE s

RECURSIVE trimEnd(_)
trimEnd(s) ==
  IF s # <<>> /\ isSpace(s[Len(s)])
  THEN trimEnd(SubSeq(s, 1, Len(s) - 1))
  ELSE s

trim(s) == trimEnd(trimStart(s))

\* normalizeText collapsing the whitespace before it strips the punctuation.
normalizeTextCollapseFirst(s) == trim(stripPunctuation(collapseSpaces(toLowerCase(s))))

normalizeText(s) ==
  trim(collapseSpaces(stripPunctuation(toLowerCase(s))))

\* .split(/\s+/): the pieces between the whitespace runs, empty pieces at
\* the two ends included ("" splits into the one piece "").
RECURSIVE splitFrom(_, _, _)
splitFrom(s, i, cur) ==
  IF i > Len(s) THEN <<cur>>
  ELSE IF isSpace(s[i])
       THEN IF i > 1 /\ isSpace(s[i - 1])
            THEN splitFrom(s, i + 1, cur)
            ELSE <<cur>> \o splitFrom(s, i + 1, <<>>)
       ELSE splitFrom(s, i + 1, Append(cur, s[i]))

splitSpaces(s) == splitFrom(s, 1, <<>>)

tokenize(s) == SelectSeq(splitSpaces(normalizeText(s)), LAMBDA w : Len(w) > 2)

(***************************************************************************)
(* Doubles.  <<d0, d1, d2, d3, d4>> is d0 + d1/B + d2/B^2 + d3/B^3 +       *)
(* d4/B^4 with B = 2^16: 64 fraction bits, which hold every double in      *)
(* [2^-11, 2) exactly.                                                     *)
(***************************************************************************)
LimbBase == 65536

RECURSIVE Pow2(_)
Pow2(k) == IF k = 0 THEN 1 ELSE 2 * Pow2(k - 1)

\* The number of bits of v: 0 for 0, 16 for 2^15..2^16 - 1.
RECURSIVE BitLen(_)
BitLen(v) == IF v = 0 THEN 0 ELSE 1 + BitLen(v \div 2)

DZero == <<0, 0, 0, 0, 0>>
DOne == <<1, 0, 0, 0, 0>>

\* The exact sum and, for x >= y, the exact difference of two digit rows.
LimbAdd(x, y) ==
  LET s5 == x[5] + y[5]
      s4 == x[4] + y[4] + s5 \div LimbBase
      s3 == x[3] + y[3] + s4 \div LimbBase
      s2 == x[2] + y[2] + s3 \div LimbBase
      s1 == x[1] + y[1] + s2 \div LimbBase
  IN  <<s1, s2 % LimbBase, s3 % LimbBase, s4 % LimbBase, s5 % LimbBase>>

LimbSub(x, y) ==
  LET s5 == x[5] - y[5]
      s4 == x[4] - y[4] + s5 \div LimbBase
      s3 == x[3] - y[3] + s4 \div LimbBase
      s2 == x[2] - y[2] + s3 \div LimbBase
      s1 == x[1] - y[1] + s2 \div LimbBase
  IN  <<s1, s2 % LimbBase, s3 % LimbBase, s4 % LimbBase, s5 % LimbBase>>

\* x >= y, digit by digit from the most significant one.
RECURSIVE GeqFrom(_, _, _)
GeqFrom(x, y, i) ==
  IF i > 5 THEN TRUE
  ELSE IF x[i] # y[i] THEN x[i] > y[i]
  ELSE GeqFrom(x, y, i + 1)

DGeq(x, y) == GeqFrom(x, y, 1)
DMax(x, y) == IF DGeq(x, y) THEN x ELSE y
DMin(x, y) == IF DGeq(y, x) THEN x ELSE y

\* The double nearest to the exact value x + (a positive amount below the
\* last digit when sticky): 53 significant bits, ties to even.  A value in
\* [2^-z, 2^(1-z)) keeps 52 + z fraction bits, so 12 - z bits are dropped.
Round53(x, sticky) ==
  IF x = DZero THEN DZero
  ELSE LET z == IF x[1] > 0 THEN 0 ELSE 17 - BitLen(x[2])
           unit == Pow2(12 - z)
           low == x[5] % unit
           half == unit \div 2
           odd == (x[5] \div unit) % 2 = 1
           up == \/ low > half
                 \/ low = half /\ half > 0 /\ (sticky \/ odd)
           kept == [x EXCEPT ![5] = @ - low]
       IN  IF up THEN LimbAdd(kept, <<0, 0, 0, 0, unit>>) ELSE kept

\* p / q for integers 0 <= p < 2 * q, q < 2^15: long division to 64
\* fraction bits, then rounded.  A decimal literal of the code (0.6) is the
\* double nearest to it, DDiv(6, 10).
DDiv(p, q) ==
  LET r0 == p % q
      r1 == (r0 * LimbBase) % q
      r2 == (r1 * LimbBase) % q
      r3 == (r2 * LimbBase) % q
      r4 == (r3 * LimbBase) % q
  IN  Round53(<<p \div q, (r0 * LimbBase) \div q, (r1 * LimbBase) \div q,
                (r2 * LimbBase) \div q, (r3 * LimbBase) \div q>>, r4 # 0)

DAdd(x, y) == Round53(LimbAdd(x, y), FALSE)
DSub(x, y) == Round53(LimbSub(x, y), FALSE)

(***************************************************************************)
(* The four metrics.                                                       *)
(***************************************************************************)
\* jaccard counting a token of a once for each of its occurrences.
jaccardOfLists(a, b) ==
  LET bs == Range(b)
      intersection == Len(SelectSeq(a, LAMBDA x : x \in bs))
      size == Cardinality(Range(a) \cup bs)
      union == IF size = 0 THEN 1 ELSE size
  IN  DDiv(intersection, union)

jaccard(a, b) ==
  LET as == Range(a)
      bs == Range(b)
      intersection == Cardinality({x \in as : x \in bs})
      size == Cardinality(as \cup bs)
      union == IF size = 0 THEN 1 ELSE size
  IN  DDiv(intersection, union)

\* A loop for (k = lo; k <= hi; k++) is evaluated by halving its range: the
\* passes lo..mid, then the passes mid+1..hi on their result.  The loop
\* variable is part of the loop state st and st.k = lo on entry, so this is
\* the sequential loop, with a nesting of evaluation that stays logarithmic.

\* lcsCell reading the cell to the left, already of this row, in place of
\* prev.
lcsCellNoPrev(s1, s2, i, st) ==
  LET j == st.j
      temp == st.dp[j + 1]
      cell == IF s1[i] = s2[j]
              THEN st.dp[j] + 1
              ELSE Max(st.dp[j + 1], st.dp[j])
  IN  [j |-> j + 1, prev |-> temp, dp |-> [st.dp EXCEPT ![j + 1] = cell]]

\* The body of the inner loop of lcsRatio on [j, prev, dp]; dp is the row of
\* n + 1 cells, dp[j + 1] holding the code's dp[j].
lcsCell(s1, s2, i, st) ==
  LET j == st.j
      temp == st.dp[j + 1]
      cell == IF s1[i] = s2[j]
              THEN st.prev + 1
              ELSE Max(st.dp[j + 1], st.dp[j])
  IN  [j |-> j + 1, prev |-> temp, dp |-> [st.dp EXCEPT ![j + 1] = cell]]

\* for (let j = lo; j <= hi; j++)
RECURSIVE lcsInner(_, _, _, _, _, _)
lcsInner(s1, s2, i, lo, hi, st) ==
  IF st.j > hi THEN st
  ELSE IF lo = hi THEN lcsCell(s1, s2, i, st)
  ELSE LET mid == (lo + hi) \div 2
       IN  lcsInner(s1, s2, i, mid + 1, hi, lcsInner(s1, s2, i, lo, mid, st))

\* The body of the outer loop on [i, dp]: let prev = 0, then the inner loop.
lcsRow(s1, s2, st) ==
  [i |-> st.i + 1,
   dp |-> lcsInner(s1, s2, st.i, 1, Len(s2), [j |-> 1, prev |-> 0, dp |-> st.dp]).dp]

\* for (let i = lo; i <= hi; i++)
RECURSIVE lcsOuter(_, _, _, _, _)
lcsOuter(s1, s2, lo, hi, st) ==
  IF st.i > hi THEN st
  ELSE IF lo = hi THEN lcsRow(s1, s2, st)
  ELSE LET mid == (lo + hi) \div 2
       IN  lcsOuter(s1, s2, mid + 1, hi, lcsOuter(s1, s2, lo, mid, st))

\* dp = new Array(n + 1).fill(0); the result is dp[n].
lcsLen(a, b) ==
  lcsOuter(a, b, 1, Len(a),
           [i |-> 1, dp |-> [j \in 1..(Len(b) + 1) |-> 0]]).dp[Len(b) + 1]

\* lcsRatio dividing by the length of its first argument.
lcsRatioByFirst(a, b) ==
  IF Len(a) = 0 \/ Len(b) = 0 THEN DZero
  ELSE DDiv(lcsLen(a, b), Len(a))

lcsRatio(a, b) ==
  IF Len(a) = 0 \/ Len(b) = 0 THEN DZero
  ELSE DDiv(lcsLen(a, b), Max(Len(a), Len(b)))

\* editCell without the substitution: the cell is taken from the cell above
\* or from the cell to the left only.
editCellNoSubstitution(a, b, i, above, st) ==
  LET j == st.j
      cell == IF a[i] = b[j]
              THEN above[j]
              ELSE 1 + Min(above[j + 1], st.row[j])
  IN  [j |-> j + 1, row |-> Append(st.row, cell)]

\* The body of the inner loop of editDistance on [j, row]: cell dp[i][j]
\* from the row above (dp[i - 1]) and the cells of row i filled so far; a row
\* keeps dp[i][j] at index j + 1.
editCell(a, b, i, above, st) ==
  LET j == st.j
      cell == IF a[i] = b[j]
              THEN above[j]
              ELSE 1 + Min(Min(above[j + 1], st.row[j]), above[j])
  IN  [j |-> j + 1, row |-> Append(st.row, cell)]

\* for (let j = lo; j <= hi; j++)
RECURSIVE editInner(_, _, _, _, _, _, _)
editInner(a, b, i, lo, hi, above, st) ==
  IF st.j > hi THEN st
  ELSE IF lo = hi THEN editCell(a, b, i, above, st)
  ELSE LET mid == (lo + hi) \div 2
       IN  editInner(a, b, i, mid + 1, hi, above,
                     editInner(a, b, i, lo, mid, above, st))

\* The body of the outer loop on [i, above]: row i, with dp[i][0] = i, from
\* row i - 1.
editRow(a, b, st) ==
  [i |-> st.i + 1,
   above |-> editInner(a, b, st.i, 1, Len(b), st.above,
                       [j |-> 1, row |-> <<st.i>>]).row]

\* for (let i = lo; i <= hi; i++)
RECURSIVE editOuter(_, _, _, _, _)
editOuter(a, b, lo, hi, st) ==
  IF st.i > hi THEN st
  ELSE IF lo = hi THEN editRow(a, b, st)
  ELSE LET mid == (lo + hi) \div 2
       IN  editOuter(a, b, mid + 1, hi, editOuter(a, b, lo, mid, st))

\* dp[0][j] = j; the result is dp[m][n].
editDistance(a, b) ==
  editOuter(a, b, 1, Len(a),
            [i |-> 1, above |-> [j \in 1..(Len(b) + 1) |-> j - 1]]).above[Len(b) + 1]

editDistanceRatio(a, b) ==
  LET maxLen == Max(Len(a), Len(b))
  IN  IF maxLen = 0 THEN DZero
      ELSE DSub(DOne, DDiv(editDistance(a, b), maxLen))

\* extractKeyTerms without the filter on five characters.
extractKeyTermsOver3(text) ==
  Range(SelectSeq(splitSpaces(normalizeText(text)), LAMBDA w : Len(w) > 3))

extractKeyTerms(text) ==
  LET tokens == SelectSeq(splitSpaces(normalizeText(text)), LAMBDA w : Len(w) > 3)
  IN  {t \in Range(tokens) : Len(t) >= 5}

conceptSimilarity(a, b) ==
  LET termsA == extractKeyTerms(a)
      termsB == extractKeyTerms(b)
      intersection == Cardinality({x \in termsA : x \in termsB})
      union == Cardinality(termsA \cup termsB)
  IN  IF termsA = {} /\ termsB = {} THEN DZero
      ELSE IF union > 0 THEN DDiv(intersection, union) ELSE DZero

(***************************************************************************)
(* DuplicationContext.  A context is a record holding any subset of the    *)
(* four optional fields; NoContext is the call without a context.          *)
(***************************************************************************)
NoContext == [undefined |-> TRUE]

has(context, field) == context # NoContext /\ field \in DOMAIN context

Quad(j, l, e, c) == [jaccard |-> j, lcs |-> l, edit |-> e, concept |-> c]

\* The decimal literal h/100 of the code.
Lit(h) == DDiv(h, 100)

baseThresholds == Quad(Lit(60), Lit(70), Lit(75), Lit(50))

lengthThresholds(context) ==
  IF has(context, "questionLength") /\ context.questionLength = "short"
  THEN Quad(Lit(45), Lit(60), Lit(65), Lit(40))
  ELSE IF has(context, "questionLength") /\ context.questionLength = "long"
       THEN Quad(Lit(70), Lit(80), Lit(85), Lit(60))
       ELSE baseThresholds

\* difficultyThresholds with the two adjustments exchanged.
difficultyThresholdsSwapped(context, t) ==
  IF has(context, "difficulty") /\ context.difficulty = "hard"
  THEN Quad(DSub(t.jaccard, Lit(10)), DSub(t.lcs, Lit(10)),
            DSub(t.edit, Lit(10)), DSub(t.concept, Lit(10)))
  ELSE IF has(context, "difficulty") /\ context.difficulty = "easy"
       THEN Quad(DAdd(t.jaccard, Lit(5)), DAdd(t.lcs, Lit(5)),
                 DAdd(t.edit, Lit(5)), DAdd(t.concept, Lit(5)))
       ELSE t

\* difficultyThresholds taking every difficulty but easy for hard.
difficultyThresholdsElse(context, t) ==
  IF has(context, "difficulty") /\ context.difficulty = "easy"
  THEN Quad(DSub(t.jaccard, Lit(10)), DSub(t.lcs, Lit(10)),
            DSub(t.edit, Lit(10)), DSub(t.concept, Lit(10)))
  ELSE IF has(context, "difficulty")
       THEN Quad(DAdd(t.jaccard, Lit(5)), DAdd(t.lcs, Lit(5)),
                 DAdd(t.edit, Lit(5)), DAdd(t.concept, Lit(5)))
       ELSE t

difficultyThresholds(context, t) ==
  IF has(context, "difficulty") /\ context.difficulty = "easy"
  THEN Quad(DSub(t.jaccard, Lit(10)), DSub(t.lcs, Lit(10)),
            DSub(t.edit, Lit(10)), DSub(t.concept, Lit(10)))
  ELSE IF has(context, "difficulty") /\ context.difficulty = "hard"
       THEN Quad(DAdd(t.jaccard, Lit(5)), DAdd(t.lcs, Lit(5)),
                 DAdd(t.edit, Lit(5)), DAdd(t.concept, Lit(5)))
       ELSE t

\* strengthThresholds lowering the concept threshold as the other three.
strengthThresholdsUniform(context, t) ==
  IF has(context, "modelStrength") /\ context.modelStrength = "weak"
  THEN Quad(DSub(t.jaccard, Lit(15)), DSub(t.lcs, Lit(15)),
            DSub(t.edit, Lit(15)), DSub(t.concept, Lit(15)))
  ELSE IF has(context, "modelStrength") /\ context.modelStrength = "strong"
       THEN Quad(DAdd(t.jaccard, Lit(5)), DAdd(t.lcs, Lit(5)),
                 DAdd(t.edit, Lit(5)), DAdd(t.concept, Lit(5)))
       ELSE t

strengthThresholds(context, t) ==
  IF has(context, "modelStrength") /\ context.modelStrength = "weak"
  THEN Quad(DSub(t.jaccard, Lit(15)), DSub(t.lcs, Lit(15)),
            DSub(t.edit, Lit(15)), DSub(t.concept, Lit(10)))
  ELSE IF has(context, "modelStrength") /\ context.modelStrength = "strong"
       THEN Quad(DAdd(t.jaccard, Lit(5)), DAdd(t.lcs, Lit(5)),
                 DAdd(t.edit, Lit(5)), DAdd(t.concept, Lit(5)))
       ELSE t

\* Math.min(0.15, (numQuestions - 50) / 300); a quotient of 1 or more is
\* above 0.15 whatever its digits.
countAdjustment(numQuestions) ==
  IF numQuestions - 50 >= 300 THEN Lit(15)
  ELSE DMin(Lit(15), DDiv(numQuestions - 50, 300))

\* countThresholds subtracting the adjustment.
countThresholdsLowered(context, t) ==
  IF has(context, "numQuestions") /\ context.numQuestions # 0
     /\ context.numQuestions > 50
  THEN LET adjustment == countAdjustment(context.numQuestions)
       IN  Quad(DSub(t.jaccard, adjustment), DSub(t.lcs, adjustment),
                DSub(t.edit, adjustment), DSub(t.concept, adjustment))
  ELSE t

countThresholds(context, t) ==
  IF has(context, "numQuestions") /\ context.numQuestions # 0
     /\ context.numQuestions > 50
  THEN LET adjustment == countAdjustment(context.numQuestions)
       IN  Quad(DAdd(t.jaccard, adjustment), DAdd(t.lcs, adjustment),
                DAdd(t.edit, adjustment), DAdd(t.concept, adjustment))
  ELSE t

\* clampThresholds without the bounds.
clampThresholdsOff(t) == t

clampThresholds(t) ==
  Quad(DMax(Lit(20), DMin(Lit(85), t.jaccard)),
       DMax(Lit(30), DMin(Lit(90), t.lcs)),
       DMax(Lit(40), DMin(Lit(95), t.edit)),
       DMax(Lit(20), DMin(Lit(80), t.concept)))

\* The thresholds before the clamp, and those the metrics are compared to.
adjustedThresholds(context) ==
  countThresholds(context,
    strengthThresholds(context,
      difficultyThresholds(context, lengthThresholds(context))))

thresholds(context) == clampThresholds(adjustedThresholds(context))

\* requiredMatches with its two results exchanged.
requiredMatchesInverted(context) ==
  IF \/ has(context, "questionLength") /\ context.questionLength = "short"
     \/ has(context, "difficulty") /\ context.difficulty = "easy"
     \/ has(context, "modelStrength") /\ context.modelStrength = "weak"
  THEN 2
  ELSE 1

requiredMatches(context) ==
  IF \/ has(context, "questionLength") /\ context.questionLength = "short"
     \/ has(context, "difficulty") /\ context.difficulty = "easy"
     \/ has(context, "modelStrength") /\ context.modelStrength = "weak"
  THEN 1
  ELSE 2

similarityMetrics(a, b) ==
  Quad(jaccard(tokenize(a), tokenize(b)),
       lcsRatio(a, b),
       editDistanceRatio(normalizeText(a), normalizeText(b)),
       conceptSimilarity(a, b))

\* similarityChecks with > in place of >=.
similarityChecksStrict(m, t) ==
  <<~DGeq(t.jaccard, m.jaccard), ~DGeq(t.lcs, m.lcs),
    ~DGeq(t.edit, m.edit), ~DGeq(t.concept, m.concept)>>

similarityChecks(m, t) ==
  <<DGeq(m.jaccard, t.jaccard), DGeq(m.lcs, t.lcs),
    DGeq(m.edit, t.edit), DGeq(m.concept, t.concept)>>

matchCount(checks) == Len(SelectSeq(checks, LAMBDA c : c))

\* areSimilar without the guard on empty arguments.
areSimilarUnguarded(a, b, context) ==
  IF a = b THEN TRUE
  ELSE matchCount(similarityChecks(similarityMetrics(a, b), thresholds(context)))
         >= requiredMatches(context)

areSimilar(a, b, context) ==
  IF a = <<>> \/ b = <<>> THEN FALSE
  ELSE IF a = b THEN TRUE
  ELSE matchCount(similarityChecks(similarityMetrics(a, b), thresholds(context)))
         >= requiredMatches(context)

(***************************************************************************)
(* removeDuplicates.  A Question is a record; questionText may be missing. *)
(***************************************************************************)
\* (question.questionText || "").toString().trim()
questionTextOf(question) ==
  trim(IF "questionText" \in DOMAIN question THEN question.questionText ELSE <<>>)

\* The inner loop: the index of the first kept question the text is similar
\* to, 0 when there is none.
RECURSIVE firstSimilar(_, _, _, _)
firstSimilar(norm, uniqueQuestions, k, context) ==
  IF k > Len(uniqueQuestions) THEN 0
  ELSE IF areSimilar(norm, normalizeText(questionTextOf(uniqueQuestions[k])), context)
       THEN k
       ELSE firstSimilar(norm, uniqueQuestions, k + 1, context)

\* The number of kept questions the text is similar to.
RECURSIVE allSimilar(_, _, _, _)
allSimilar(norm, uniqueQuestions, k, context) ==
  IF k > Len(uniqueQuestions) THEN 0
  ELSE (IF areSimilar(norm, normalizeText(questionTextOf(uniqueQuestions[k])), context)
        THEN 1 ELSE 0)
       + allSimilar(norm, uniqueQuestions, k + 1, context)

\* processQuestion without the break of the inner loop.
processQuestionNoBreak(acc, question, context) ==
  LET norm == normalizeText(questionTextOf(question))
      matches == allSimilar(norm, acc.uniqueQuestions, 1, context)
  IN  IF matches > 0
      THEN [acc EXCEPT !.duplicatesCount = @ + matches]
      ELSE [acc EXCEPT !.uniqueQuestions = Append(@, question)]

\* processQuestion keeping the duplicates too.
processQuestionKeepAll(acc, question, context) ==
  LET norm == normalizeText(questionTextOf(question))
      isDuplicate == firstSimilar(norm, acc.uniqueQuestions, 1, context) # 0
  IN  [uniqueQuestions |-> Append(acc.uniqueQuestions, question),
       duplicatesCount |-> acc.duplicatesCount + (IF isDuplicate THEN 1 ELSE 0)]

\* processQuestion keeping a copy of the question with the normalized text.
processQuestionNormalized(acc, question, context) ==
  LET norm == normalizeText(questionTextOf(question))
      isDuplicate == firstSimilar(norm, acc.uniqueQuestions, 1, context) # 0
  IN  IF isDuplicate
      THEN [acc EXCEPT !.duplicatesCount = @ + 1]
      ELSE [acc EXCEPT !.uniqueQuestions =
              Append(@, [f \in DOMAIN question \cup {"questionText"} |->
                           IF f = "questionText" THEN norm ELSE question[f]])]

\* processQuestion putting a kept question in front.
processQuestionUnshift(acc, question, context) ==
  LET norm == normalizeText(questionTextOf(question))
      isDuplicate == firstSimilar(norm, acc.uniqueQuestions, 1, context) # 0
  IN  IF isDuplicate
      THEN [acc EXCEPT !.duplicatesCount = @ + 1]
      ELSE [acc EXCEPT !.uniqueQuestions = <<question>> \o @]

\* processQuestion comparing the question with the last kept question only.
processQuestionLastOnly(acc, question, context) ==
  LET norm == normalizeText(questionTextOf(question))
      last == Len(acc.uniqueQuestions)
      isDuplicate == last > 0 /\ firstSimilar(norm, acc.uniqueQuestions, last, context) # 0
  IN  IF isDuplicate
      THEN [acc EXCEPT !.duplicatesCount = @ + 1]
      ELSE [acc EXCEPT !.uniqueQuestions = Append(@, question)]

\* The inner loop on the trimmed texts as they are, not normalized.
RECURSIVE firstSimilarRaw(_, _, _, _)
firstSimilarRaw(text, uniqueQuestions, k, context) ==
  IF k > Len(uniqueQuestions) THEN 0
  ELSE IF areSimilar(text, questionTextOf(uniqueQuestions[k]), context)
       THEN k
       ELSE firstSimilarRaw(text, uniqueQuestions, k + 1, context)

\* processQuestion without the two calls of normalizeText.
processQuestionRaw(acc, question, context) ==
  LET isDuplicate ==
        firstSimilarRaw(questionTextOf(question), acc.uniqueQuestions, 1, context) # 0
  IN  IF isDuplicate
      THEN [acc EXCEPT !.duplicatesCount = @ + 1]
      ELSE [acc EXCEPT !.uniqueQuestions = Append(@, question)]

\* One iteration of the outer loop on the accumulator
\* [uniqueQuestions, duplicatesCount].
processQuestion(acc, question, context) ==
  LET norm == normalizeText(questionTextOf(question))
      isDuplicate == firstSimilar(norm, acc.uniqueQuestions, 1, context) # 0
  IN  IF isDuplicate
      THEN [acc EXCEPT !.duplicatesCount = @ + 1]
      ELSE [acc EXCEPT !.uniqueQuestions = Append(@, question)]

RECURSIVE outerLoop(_, _, _, _)
outerLoop(questions, i, acc, context) ==
  IF i > Len(questions) THEN acc
  ELSE outerLoop(questions, i + 1, processQuestion(acc, questions[i], context), context)

removeDuplicates(questions, context) ==
  LET acc == outerLoop(questions, 1, [uniqueQuestions |-> <<>>, duplicatesCount |-> 0], context)
  IN  [unique |-> acc.uniqueQuestions, duplicatesRemoved |-> acc.duplicatesCount]

(***************************************************************************)
(* Inputs.                                                                 *)
(***************************************************************************)
\* An optional value: <<>> when absent, <<v>> when present.
ContextOf(ql, d, ms, n) ==
  LET given == [questionLength |-> ql, difficulty |-> d, modelStrength |-> ms,
                numQuestions |-> n]
      fields == {f \in DOMAIN given : given[f] # <<>>}
  IN  [f \in fields |-> given[f][1]]

QuestionLengths == {<<>>, <<"short">>, <<"medium">>, <<"long">>}
Difficulties == {<<>>, <<"easy">>, <<"medium">>, <<"hard">>}
ModelStrengths == {<<>>, <<"weak">>, <<"medium">>, <<"strong">>}
NumQuestionsValues == {<<>>, <<10>>, <<200>>}

AllContexts ==
  {NoContext} \cup
  {ContextOf(ql, d, ms, n) : ql \in QuestionLengths, d \in Difficulties,
                             ms \in ModelStrengths, n \in NumQuestionsValues}

\* numQuestions of every kind: absent, negative, zero, up to 50, between 50
\* and the cap of the adjustment (reached at 95), beyond it, very large.
PolicySizes ==
  {<<>>, <<-1000000>>, <<-5>>, <<0>>, <<1>>, <<10>>, <<50>>, <<51>>, <<80>>, <<94>>,
   <<95>>, <<96>>, <<200>>, <<350>>, <<1000000000>>}

PolicyContexts ==
  {NoContext} \cup
  {ContextOf(ql, d, ms, n) : ql \in QuestionLengths, d \in Difficulties,
                             ms \in ModelStrengths, n \in PolicySizes}

\* The contexts none of whose fields adjusts anything: questionLength and
\* modelStrength absent or medium, difficulty absent or a string that is not
\* the literal easy or hard, numQuestions absent or at most 50.
NeutralContexts ==
  {ContextOf(ql, d, ms, n) :
     ql \in {<<>>, <<"medium">>},
     d \in {<<>>, <<"medium">>, <<"Easy">>, <<"HARD">>, <<"">>},
     ms \in {<<>>, <<"medium">>},
     n \in {<<>>, <<-5>>, <<0>>, <<10>>, <<50>>}}

\* The contexts of the driver runs: none, difficulty alone, and the two
\* extreme contexts.
DriverContexts ==
  {NoContext,
   ContextOf(<<>>, <<"easy">>, <<>>, <<>>),
   ContextOf(<<>>, <<"hard">>, <<>>, <<>>),
   ContextOf(<<"short">>, <<"easy">>, <<"weak">>, <<10>>),
   ContextOf(<<"long">>, <<"hard">>, <<"strong">>, <<10>>)}

\* The value standing for a question without a questionText field.
MissingText == <<"undefined">>

MakeQuestion(text, i) ==
  IF text = MissingText
  THEN [orderIndex |-> i]
  ELSE [questionText |-> text, orderIndex |-> i]

QuestionLists(texts, maxLen) ==
  UNION {{[i \in 1..n |-> MakeQuestion(f[i], i)] : f \in [1..n -> texts]} :
         n \in 0..maxLen}

\* The texts of the driver runs: no text, the empty text, a text of
\* punctuation alone, and near-duplicates.
DriverTexts ==
  {MissingText,
   <<>>,
   <<"?">>,
   <<"A", "a", "b", "?">>,
   <<"a", "a", "a", "a", "b">>,
   <<"a", "a", "a", "a">>}

NearTexts ==
  {<<"A", "a", "b", "?">>,
   <<"a", "a", "a", "a", "b">>,
   <<"a", "a", "a", "a">>,
   <<"a", " ", "a", "a", "a", "a", "b">>}

\* Lists of up to MaxQuestions questions over DriverTexts and of up to
\* MaxNearQuestions questions over NearTexts.
MaxQuestions == 3
MaxNearQuestions == 4

DriverLists ==
  QuestionLists(DriverTexts, MaxQuestions) \cup QuestionLists(NearTexts, MaxNearQuestions)

MaxScenarioQuestions == 3

WhatIsTheCapital == <<"W", "h", "a", "t", " ", "i", "s", " ", "t", "h", "e", " ", "c", "a", "p", "i", "t", "a", "l", " ", "o", "f", " ", "F", "r", "a", "n", "c", "e", "?">>
NameTheCapital == <<"N", "a", "m", "e", " ", "t", "h", "e", " ", "c", "a", "p", "i", "t", "a", "l", " ", "c", "i", "t", "y", " ", "o", "f", " ", "F", "r", "a", "n", "c", "e", ".">>
ThePlural == <<"W", "h", "a", "t", " ", "a", "r", "e", " ", "t", "h", "e", " ", "c", "a", "p", "i", "t", "a", "l", "s", " ", "o", "f", " ", "F", "r", "a", "n", "c", "e", "?">>

ScenarioTexts == {WhatIsTheCapital, NameTheCapital, ThePlural}

ScenarioA ==
  <<MakeQuestion(WhatIsTheCapital, 1), MakeQuestion(WhatIsTheCapital, 2),
    MakeQuestion(NameTheCapital, 3)>>

\* All texts of up to maxLen characters of an alphabet.
Texts(alphabet, maxLen) == UNION {[1..n -> alphabet] : n \in 0..maxLen}

\* An uppercase letter, a lowercase letter, a punctuation mark, a symbol of
\* the class, two whitespace characters and an uppercase letter without a
\* lowercase form.
TextAlphabet == {"A", "b", "?", "$", " ", "\t", DoubleStruckR}

MaxTextLen == 5

\* The inputs of two invocations side by side.
CallTexts == {<<"a", "a", "a", "a", "b">>, <<"a", "a", "a", "a">>}

CallContexts == {NoContext, ContextOf(<<"long">>, <<>>, <<>>, <<>>)}

MaxCallQuestions == 2

\* Texts that pairwise have no word in common.
Geology == <<"G", "e", "o", "l", "o", "g", "y">>
Theology == <<"T", "h", "e", "o", "l", "o", "g", "y">>
Cardiology == <<"C", "a", "r", "d", "i", "o", "l", "o", "g", "y">>
Evil == <<"E", "v", "i", "l">>
Vile == <<"V", "i", "l", "e">>

UnrelatedTexts == {Geology, Theology, Cardiology, Evil, Vile}

MaxUnrelatedQuestions == 3

PairTexts ==
  {<<>>,
   <<"?">>,
   <<"A", "a", "b", "?">>,
   <<"a", "a", "a", "a", "b">>,
   <<"a", "a", "a", "a">>,
   <<"h", "e", "a", "r", "t", " ", "v", "a", "l", "v", "e">>,
   <<"V", "a", "l", "v", "e", ",", " ", "h", "e", "a", "r", "t", "!">>,
   <<"t", "h", "e", " ", "h", "e", "a", "r", "t">>}

\* The texts of the metric runs: every text of up to MaxMetricLen characters
\* of a lowercase letter, an uppercase letter and the space, and words long
\* enough to be tokens (3 characters) and key terms (5), one of them twice in
\* a text.
MetricAlphabet == {"a", "B", " "}

MaxMetricLen == 3

MetricWords ==
  {<<"?">>,
   <<"a", "?", "B">>,
   <<"a", "a", "a", " ", "a", "a", "a">>,
   <<"a", "a", "a", "a", "B">>,
   <<"A", "a", "a", "a", "b", "?">>,
   <<"a", "a", "a", "a">>}

MetricTexts == Texts(MetricAlphabet, MaxMetricLen) \cup MetricWords

\* The texts of the concept runs: without a word, with words of four and of
\* five characters, and with the same key terms in another order, case and
\* punctuation.
ConceptTexts ==
  {<<>>,
   <<"?">>,
   <<"a", "a", "a", "a">>,
   <<"a", "a", "a", "a", "B">>,
   <<"A", "a", "a", "a", "b", "?">>,
   <<"a", "a", "a", "a", "b", " ", "a", "a", "a", "a", "a">>,
   <<"a", "a", "a", "a", "a", " ", " ", "a", "a", "a", "a", "b", "!">>,
   <<"a", "a", "a", "a", " ", "a", "a", "a", "a", "b">>,
   <<"a", "a", "a", " ", "a", "a", "a">>,
   <<"h", "e", "a", "r", "t", " ", "v", "a", "l", "v", "e">>,
   <<"V", "a", "l", "v", "e", ",", " ", "h", "e", "a", "r", "t", "!">>,
   <<"t", "h", "e", " ", "h", "e", "a", "r", "t">>}

\* The texts of the runs on texts with one normal form: no text, a text of
\* punctuation alone, and two pairs of texts that differ in case and
\* punctuation only, one pair without a token.
CollapseTexts ==
  {MissingText,
   <<"?">>,
   <<"A", "?">>,
   <<"a">>,
   <<"A", "a", "b", "?">>,
   <<"a", "a", "b">>}

MaxCollapseQuestions == 3

\* The contexts and sizes of the runs with a second pass: numQuestions below
\* and above 50, and at the cap of the adjustment.
RepassSizes == {0, 10, 80, 200}

RepassContexts ==
  {ContextOf(ql, d, <<>>, <<n>>) :
     ql \in {<<>>, <<"long">>}, d \in {<<>>, <<"easy">>}, n \in RepassSizes}

MaxRepassQuestions == 3

(***************************************************************************)
(* The state machine: a caller hands a list and a context to               *)
(* removeDuplicates, and may then hand the result to it again, or the same *)
(* list with the other difficulty; or a caller compares two texts with     *)
(* areSimilar.                                                             *)
(***************************************************************************)
VARIABLES questions, context, pc, result, again, other, a, b, similar, policy,
          text, normal, calls, metrics, domain, db, requests

vars == <<questions, context, pc, result, again, other, a, b, similar, policy,
          text, normal, calls, metrics, domain, db, requests>>

NoResult == [unique |-> <<>>, duplicatesRemoved |-> 0]

NoCall == [context |-> NoContext, result |-> NoResult]

\* The results of normalizeText on a text and on its own result.
NoNormal == [once |-> <<>>, twice |-> <<>>]

\* The thresholds before and after the clamp, and the required votes.
PolicyOf(ctx) ==
  [adjusted |-> adjustedThresholds(ctx),
   thresholds |-> thresholds(ctx),
   requiredMatches |-> requiredMatches(ctx)]

NoPolicy == [adjusted |-> baseThresholds, thresholds |-> baseThresholds, requiredMatches |-> 0]

\* The values of the four metrics and of editDistance before they are computed.
NoMetrics == [sims |-> Quad(DZero, DZero, DZero, DZero), distance |-> 0]

\* The locals of generateDomainByDomainQuestions before it runs.
NoDomain ==
  [targetCount |-> 0, context |-> NoContext, domainQuestions |-> <<>>, attempts |-> 0,
   batch |-> <<>>, pc |-> "idle"]

\* The tables exams, questions and idempotency_keys, empty, and the last id
\* the exams table gave out.
NoRows == [exams |-> {}, questions |-> {}, idempotency_keys |-> {}, seq |-> 0]

InitWith(lists, contexts) ==
  /\ questions \in lists
  /\ context \in contexts
  /\ pc = "ready"
  /\ result = NoResult
  /\ again = NoResult
  /\ other = NoCall
  /\ a = <<>>
  /\ b = <<>>
  /\ similar = FALSE
  /\ policy = NoPolicy
  /\ text = <<>>
  /\ normal = NoNormal
  /\ calls = <<>>
  /\ metrics = NoMetrics
  /\ domain = NoDomain
  /\ db = NoRows
  /\ requests = <<>>

Init == InitWith(DriverLists, DriverContexts)

InitScenario == InitWith(QuestionLists(ScenarioTexts, MaxScenarioQuestions), DriverContexts)

InitPair ==
  /\ questions = <<>>
  /\ context \in AllContexts
  /\ pc = "pair"
  /\ result = NoResult
  /\ again = NoResult
  /\ other = NoCall
  /\ a \in PairTexts
  /\ b \in PairTexts
  /\ similar = FALSE
  /\ policy = NoPolicy
  /\ text = <<>>
  /\ normal = NoNormal
  /\ calls = <<>>
  /\ metrics = NoMetrics
  /\ domain = NoDomain
  /\ db = NoRows
  /\ requests = <<>>

InitUnrelated == InitWith(QuestionLists(UnrelatedTexts, MaxUnrelatedQuestions), DriverContexts)

InitCollapse == InitWith(QuestionLists(CollapseTexts, MaxCollapseQuestions), DriverContexts)

InitRepass == InitWith(QuestionLists(NearTexts, MaxRepassQuestions), RepassContexts)

InitNeutral ==
  /\ questions = <<>>
  /\ context \in NeutralContexts
  /\ pc = "pair"
  /\ result = NoResult
  /\ again = NoResult
  /\ other = NoCall
  /\ a \in PairTexts
  /\ b \in PairTexts
  /\ similar = FALSE
  /\ policy = NoPolicy
  /\ text = <<>>
  /\ normal = NoNormal
  /\ calls = <<>>
  /\ metrics = NoMetrics
  /\ domain = NoDomain
  /\ db = NoRows
  /\ requests = <<>>

InitNormalize ==
  /\ questions = <<>>
  /\ context = NoContext
  /\ pc = "text"
  /\ result = NoResult
  /\ again = NoResult
  /\ other = NoCall
  /\ a = <<>>
  /\ b = <<>>
  /\ similar = FALSE
  /\ policy = NoPolicy
  /\ text \in Texts(TextAlphabet, MaxTextLen)
  /\ normal = NoNormal
  /\ calls = <<>>
  /\ metrics = NoMetrics
  /\ domain = NoDomain
  /\ db = NoRows
  /\ requests = <<>>

\* An invocation of removeDuplicates at its first statement: its two
\* arguments and its locals.
NewCall(qs, ctx) ==
  [questions |-> qs, context |-> ctx, i |-> 1,
   acc |-> [uniqueQuestions |-> <<>>, duplicatesCount |-> 0],
   pc |-> "running", result |-> NoResult]

\* Two invocations, each on its own list and context.
InitCalls ==
  /\ questions = <<>>
  /\ context = NoContext
  /\ pc = "calls"
  /\ result = NoResult
  /\ again = NoResult
  /\ other = NoCall
  /\ a = <<>>
  /\ b = <<>>
  /\ similar = FALSE
  /\ policy = NoPolicy
  /\ text = <<>>
  /\ normal = NoNormal
  /\ calls \in [1..2 -> {NewCall(qs, ctx) : qs \in QuestionLists(CallTexts, MaxCallQuestions),
                                            ctx \in CallContexts}]
  /\ metrics = NoMetrics
  /\ domain = NoDomain
  /\ db = NoRows
  /\ requests = <<>>

\* areSimilar on two fixed distinct texts, under every context of
\* PolicyContexts.
InitPolicy ==
  /\ questions = <<>>
  /\ context \in PolicyContexts
  /\ pc = "policy"
  /\ result = NoResult
  /\ again = NoResult
  /\ other = NoCall
  /\ a = <<"a", "a", "a", "a">>
  /\ b = <<"a", "a", "a", "a", "b">>
  /\ similar = FALSE
  /\ policy = NoPolicy
  /\ text = <<>>
  /\ normal = NoNormal
  /\ calls = <<>>
  /\ metrics = NoMetrics
  /\ domain = NoDomain
  /\ db = NoRows
  /\ requests = <<>>

\* removeDuplicates(questions, context)
CallRemoveDuplicates ==
  /\ pc = "ready"
  /\ result' = removeDuplicates(questions, context)
  /\ pc' = "done"
  /\ UNCHANGED <<questions, context, again, other, a, b, similar, policy, text, normal, calls,
                 metrics, domain, db, requests>>

\* removeDuplicates(result.unique, context): the list a call returned is
\* handed to the detector again.
Resubmit ==
  /\ pc = "done"
  /\ again' = removeDuplicates(result.unique, context)
  /\ pc' = "resubmitted"
  /\ UNCHANGED <<questions, context, result, other, a, b, similar, policy, text, normal, calls,
                 metrics, domain, db, requests>>

\* removeDuplicates(questions, c), c being the context with its difficulty
\* changed from "easy" to "hard" or from "hard" to "easy".
Recall ==
  /\ pc = "done"
  /\ has(context, "difficulty")
  /\ \E d \in {"easy", "hard"} :
       /\ context.difficulty \in {"easy", "hard"} \ {d}
       /\ other' = [context |-> [context EXCEPT !.difficulty = d],
                    result |-> removeDuplicates(questions, [context EXCEPT !.difficulty = d])]
  /\ pc' = "recalled"
  /\ UNCHANGED <<questions, context, result, again, a, b, similar, policy, text, normal, calls,
                 metrics, domain, db, requests>>

\* areSimilar(a, b, context)
Compare ==
  /\ pc = "pair"
  /\ similar' = areSimilar(a, b, context)
  /\ pc' = "compared"
  /\ UNCHANGED <<questions, context, result, again, other, a, b, policy, text, normal, calls,
                 metrics, domain, db, requests>>

\* areSimilar(a, b, context) on distinct non-empty texts, with the thresholds
\* and the required votes it compared the metrics to.
CompareWithPolicy ==
  /\ pc = "policy"
  /\ policy' = PolicyOf(context)
  /\ similar' = areSimilar(a, b, context)
  /\ pc' = "adjusted"
  /\ UNCHANGED <<questions, context, result, again, other, a, b, text, normal, calls,
                 metrics, domain, db, requests>>

Next == CallRemoveDuplicates \/ Resubmit \/ Recall

\* removeDuplicates(result.unique, c), c being the context with another
\* numQuestions: the list a call returned goes through the pass before
\* saving, whose context counts the questions it is handed.
Repass ==
  /\ pc = "done"
  /\ has(context, "numQuestions")
  /\ \E n \in RepassSizes :
       other' = [context |-> [context EXCEPT !.numQuestions = n],
                 result |-> removeDuplicates(result.unique,
                                             [context EXCEPT !.numQuestions = n])]
  /\ pc' = "repassed"
  /\ UNCHANGED <<questions, context, result, again, a, b, similar, policy, text, normal, calls,
                 metrics, domain, db, requests>>

NextRepass == CallRemoveDuplicates \/ Repass

\* normalizeText(text)
Normalize ==
  /\ pc = "text"
  /\ normal' = [normal EXCEPT !.once = normalizeText(text)]
  /\ pc' = "normalized"
  /\ UNCHANGED <<questions, context, result, again, other, a, b, similar, policy, text, calls,
                 metrics, domain, db, requests>>

\* normalizeText on the result of normalizeText, as removeDuplicates and the
\* metrics of areSimilar do.
Renormalize ==
  /\ pc = "normalized"
  /\ normal' = [normal EXCEPT !.twice = normalizeText(normal.once)]
  /\ pc' = "renormalized"
  /\ UNCHANGED <<questions, context, result, again, other, a, b, similar, policy, text, calls,
                 metrics, domain, db, requests>>

\* One invocation, on the lists and contexts of the driver runs.
InitGreedy ==
  /\ questions = <<>>
  /\ context = NoContext
  /\ pc = "calls"
  /\ result = NoResult
  /\ again = NoResult
  /\ other = NoCall
  /\ a = <<>>
  /\ b = <<>>
  /\ similar = FALSE
  /\ policy = NoPolicy
  /\ text = <<>>
  /\ normal = NoNormal
  /\ calls \in [1..1 -> {NewCall(qs, ctx) : qs \in DriverLists, ctx \in DriverContexts}]
  /\ metrics = NoMetrics
  /\ domain = NoDomain
  /\ db = NoRows
  /\ requests = <<>>

\* The locals kept in one place for all invocations.
localsShared(cs, p) == cs[1].acc

\* The locals an invocation works on: its own.
localsOf(cs, p) == cs[p].acc

\* One pass of the outer loop of invocation p.
StepCall(p) ==
  /\ pc = "calls"
  /\ calls[p].pc = "running"
  /\ calls[p].i <= Len(calls[p].questions)
  /\ calls' = [calls EXCEPT
                 ![p].acc = processQuestion(localsOf(calls, p),
                                            calls[p].questions[calls[p].i],
                                            calls[p].context),
                 ![p].i = @ + 1]
  /\ UNCHANGED <<questions, context, pc, result, again, other, a, b, similar, policy,
                 text, normal, metrics, domain, db, requests>>

\* The return statement of invocation p.
ReturnCall(p) ==
  /\ pc = "calls"
  /\ calls[p].pc = "running"
  /\ calls[p].i > Len(calls[p].questions)
  /\ calls' = [calls EXCEPT
                 ![p].result = [unique |-> localsOf(calls, p).uniqueQuestions,
                                duplicatesRemoved |-> localsOf(calls, p).duplicatesCount],
                 ![p].pc = "returned"]
  /\ UNCHANGED <<questions, context, pc, result, again, other, a, b, similar, policy,
                 text, normal, metrics, domain, db, requests>>

NextPair == Compare

NextGreedy == StepCall(1) \/ ReturnCall(1)

NextCalls == (\E p \in 1..2 : StepCall(p)) \/ (\E p \in 1..2 : ReturnCall(p))

NextNormalize == Normalize \/ Renormalize

NextPolicy == CompareWithPolicy

Spec == Init /\ [][Next]_vars

SpecScenario == InitScenario /\ [][Next]_vars

SpecUnrelated == InitUnrelated /\ [][Next]_vars

SpecCollapse == InitCollapse /\ [][Next]_vars

SpecRepass == InitRepass /\ [][NextRepass]_vars

SpecPair == InitPair /\ [][NextPair]_vars

SpecCalls == InitCalls /\ [][NextCalls]_vars

SpecGreedy == InitGreedy /\ [][NextGreedy]_vars

SpecNormalize == InitNormalize /\ [][NextNormalize]_vars

SpecPolicy == InitPolicy /\ [][NextPolicy]_vars

SpecNeutral == InitNeutral /\ [][NextPair]_vars

(***************************************************************************)
(* The metrics on their own: the four values areSimilar computes for two   *)
(* texts, and editDistance on the texts as they are.                       *)
(***************************************************************************)
InitMetrics ==
  /\ questions = <<>>
  /\ context = NoContext
  /\ pc = "metrics"
  /\ result = NoResult
  /\ again = NoResult
  /\ other = NoCall
  /\ a \in MetricTexts
  /\ b \in MetricTexts
  /\ similar = FALSE
  /\ policy = NoPolicy
  /\ text = <<>>
  /\ normal = NoNormal
  /\ calls = <<>>
  /\ metrics = NoMetrics
  /\ domain = NoDomain
  /\ db = NoRows
  /\ requests = <<>>

\* jaccardSim, lcsSim, editSim and conceptSim of areSimilar(a, b).
Measure ==
  /\ pc = "metrics"
  /\ metrics' = [metrics EXCEPT !.sims = similarityMetrics(a, b)]
  /\ pc' = "measured"
  /\ UNCHANGED <<questions, context, result, again, other, a, b, similar, policy,
                 text, normal, calls, domain, db, requests>>

\* editDistance(a, b)
CallEditDistance ==
  /\ pc = "metrics"
  /\ metrics' = [metrics EXCEPT !.distance = editDistance(a, b)]
  /\ pc' = "distance"
  /\ UNCHANGED <<questions, context, result, again, other, a, b, similar, policy,
                 text, normal, calls, domain, db, requests>>

NextMetrics == Measure \/ CallEditDistance

SpecMetrics == InitMetrics /\ [][NextMetrics]_vars

\* The metrics on texts with key terms.
InitConcept ==
  /\ questions = <<>>
  /\ context = NoContext
  /\ pc = "metrics"
  /\ result = NoResult
  /\ again = NoResult
  /\ other = NoCall
  /\ a \in ConceptTexts
  /\ b \in ConceptTexts
  /\ similar = FALSE
  /\ policy = NoPolicy
  /\ text = <<>>
  /\ normal = NoNormal
  /\ calls = <<>>
  /\ metrics = NoMetrics
  /\ domain = NoDomain
  /\ db = NoRows
  /\ requests = <<>>

NextConcept == Measure

SpecConcept == InitConcept /\ [][NextConcept]_vars

(***************************************************************************)
(* generateDomainByDomainQuestions, for one domain: attempts that each ask  *)
(* the model for a batch of questions, and the filter that takes the        *)
(* questions of a batch one by one.                                         *)
(***************************************************************************)
\* The texts the model may answer with; each is a non-empty string, as the
\* filter of generateDomainSpecificQuestions lets no other through.
DomainTexts ==
  {<<"?">>,
   <<"A", "a", "b", "?">>,
   <<"a", "a", "b">>,
   <<"a", "a", "a", "a", "b">>}

MaxBatch == 2

\* The batches generateDomainSpecificQuestions may return: any number of
\* questions, orderIndex being the position in the answer of the model.
DomainBatches ==
  UNION {{[i \in 1..n |-> MakeQuestion(f[i], i - 1)] : f \in [1..n -> DomainTexts]} :
         n \in 0..MaxBatch}

MaxTarget == 2

\* duplicationContext of the route: all four fields are set.
DomainContexts ==
  {ContextOf(<<"medium">>, <<"medium">>, <<"medium">>, <<10>>),
   ContextOf(<<"short">>, <<"easy">>, <<"weak">>, <<10>>)}

\* const maxAttempts = Math.max(5, targetCount * 2)
maxAttempts(targetCount) == Max(5, targetCount * 2)

\* isDuplicateInDomain judged by the questionText being the same string.
isDuplicateInDomainExact(domainQuestions, newQuestion, duplicationContext) ==
  \E k \in 1..Len(domainQuestions) :
    domainQuestions[k].questionText = newQuestion.questionText

\* removeDuplicates on the accepted questions followed by the new one returns
\* as many questions as were accepted.
isDuplicateInDomain(domainQuestions, newQuestion, duplicationContext) ==
  LET testArray == Append(domainQuestions, newQuestion)
      deduplicationResult == removeDuplicates(testArray, duplicationContext)
  IN  Len(deduplicationResult.unique) = Len(domainQuestions)

InitDomain ==
  /\ questions = <<>>
  /\ context = NoContext
  /\ pc = "domain"
  /\ result = NoResult
  /\ again = NoResult
  /\ other = NoCall
  /\ a = <<>>
  /\ b = <<>>
  /\ similar = FALSE
  /\ policy = NoPolicy
  /\ text = <<>>
  /\ normal = NoNormal
  /\ calls = <<>>
  /\ metrics = NoMetrics
  /\ \E t \in 0..MaxTarget, c \in DomainContexts :
       domain = [targetCount |-> t, context |-> c, domainQuestions |-> <<>>,
                 attempts |-> 0, batch |-> <<>>, pc |-> "while"]
  /\ db = NoRows
  /\ requests = <<>>

\* The condition of the while loop.
loopContinues(d) ==
  Len(d.domainQuestions) < d.targetCount /\ d.attempts < maxAttempts(d.targetCount)

\* An attempt whose call of generateDomainSpecificQuestions returns a batch.
Generate ==
  /\ pc = "domain"
  /\ domain.pc = "while"
  /\ loopContinues(domain)
  /\ \E batch \in DomainBatches :
       domain' = [domain EXCEPT !.attempts = @ + 1, !.batch = batch, !.pc = "for"]
  /\ UNCHANGED <<questions, context, pc, result, again, other, a, b, similar, policy,
                 text, normal, calls, metrics, db, requests>>

\* An attempt whose call throws the upstream gateway timeout: back off, then
\* continue with the next pass of the while loop.
UpstreamTimeout ==
  /\ pc = "domain"
  /\ domain.pc = "while"
  /\ loopContinues(domain)
  /\ domain' = [domain EXCEPT !.attempts = @ + 1]
  /\ UNCHANGED <<questions, context, pc, result, again, other, a, b, similar, policy,
                 text, normal, calls, metrics, db, requests>>

\* An attempt whose call throws any other error: break.
GenerationFailed ==
  /\ pc = "domain"
  /\ domain.pc = "while"
  /\ loopContinues(domain)
  /\ domain' = [domain EXCEPT !.attempts = @ + 1, !.pc = "end"]
  /\ UNCHANGED <<questions, context, pc, result, again, other, a, b, similar, policy,
                 text, normal, calls, metrics, db, requests>>

\* One pass of the for loop over the batch, the target not yet reached: the
\* next question is pushed unless isDuplicateInDomain.
Examine ==
  /\ pc = "domain"
  /\ domain.pc = "for"
  /\ domain.batch # <<>>
  /\ Len(domain.domainQuestions) < domain.targetCount
  /\ domain' =
       IF isDuplicateInDomain(domain.domainQuestions, Head(domain.batch), domain.context)
       THEN [domain EXCEPT !.batch = Tail(@)]
       ELSE [domain EXCEPT !.batch = Tail(@),
                           !.domainQuestions = Append(@, Head(domain.batch))]
  /\ UNCHANGED <<questions, context, pc, result, again, other, a, b, similar, policy,
                 text, normal, calls, metrics, db, requests>>

\* if (domainQuestions.length >= targetCount) break: the rest of the batch is
\* left.
BreakBatch ==
  /\ pc = "domain"
  /\ domain.pc = "for"
  /\ domain.batch # <<>>
  /\ Len(domain.domainQuestions) >= domain.targetCount
  /\ domain' = [domain EXCEPT !.batch = <<>>, !.pc = "while"]
  /\ UNCHANGED <<questions, context, pc, result, again, other, a, b, similar, policy,
                 text, normal, calls, metrics, db, requests>>

\* The for loop has taken the whole batch.
EndBatch ==
  /\ pc = "domain"
  /\ domain.pc = "for"
  /\ domain.batch = <<>>
  /\ domain' = [domain EXCEPT !.pc = "while"]
  /\ UNCHANGED <<questions, context, pc, result, again, other, a, b, similar, policy,
                 text, normal, calls, metrics, db, requests>>

\* The condition of the while loop is false.
EndLoop ==
  /\ pc = "domain"
  /\ domain.pc = "while"
  /\ ~loopContinues(domain)
  /\ domain' = [domain EXCEPT !.pc = "end"]
  /\ UNCHANGED <<questions, context, pc, result, again, other, a, b, similar, policy,
                 text, normal, calls, metrics, db, requests>>

NextDomain ==
  \/ Generate
  \/ UpstreamTimeout
  \/ GenerationFailed
  \/ Examine
  \/ BreakBatch
  \/ EndBatch
  \/ EndLoop

SpecDomain == InitDomain /\ [][NextDomain]_vars

(***************************************************************************)
(* POST /api/exams, the create branch: requests that each run the          *)
(* transaction of the handler, their statements interleaved.  A            *)
(* transaction sees the rows committed when a statement runs, keeps its    *)
(* own rows to itself until it commits, and commits all of them or none.   *)
(***************************************************************************)
\* idempotencyKey of a request body: "" stands for a request without a key
\* (the handler tests the value for truth).
IdempotencyKeys == {"", "retry-1"}

\* The number of questions of a request body.
QuestionCounts == {0, 2}

MaxRequests == 2

\* The rows a transaction has inserted and not yet committed.
NoWrites == [exams |-> {}, questions |-> {}, idempotency_keys |-> {}]

NewRequest(key, n) ==
  [idempotencyKey |-> key, examQuestions |-> n, pc |-> "begin", existing |-> 0,
   created |-> 0, tx |-> NoWrites, response |-> [status |-> 0, exam |-> 0]]

InitExams ==
  /\ questions = <<>>
  /\ context = NoContext
  /\ pc = "exams"
  /\ result = NoResult
  /\ again = NoResult
  /\ other = NoCall
  /\ a = <<>>
  /\ b = <<>>
  /\ similar = FALSE
  /\ policy = NoPolicy
  /\ text = <<>>
  /\ normal = NoNormal
  /\ calls = <<>>
  /\ metrics = NoMetrics
  /\ domain = NoDomain
  /\ db = NoRows
  /\ requests \in [1..MaxRequests ->
                     {NewRequest(k, n) : k \in IdempotencyKeys, n \in QuestionCounts}]

\* key TEXT NOT NULL UNIQUE never enforced.
violatesUniqueOff(rows, key) == FALSE

\* key TEXT NOT NULL UNIQUE: a row with this key is there already.
violatesUnique(rows, key) ==
  \E row \in rows : row.key = key

\* The transaction of request r throws: its rows are dropped and the handler
\* answers 500.
rolledBack(r) ==
  [requests EXCEPT ![r].tx = NoWrites, ![r].pc = "responded",
                   ![r].response = [status |-> 500, exam |-> 0]]

\* if (idempotencyKey): select the row of the key; when there is one, with an
\* exam, return that exam.
CheckKey(r) ==
  /\ pc = "exams"
  /\ requests[r].pc = "begin"
  /\ LET key == requests[r].idempotencyKey
         existing == {row \in db.idempotency_keys : row.key = key}
     IN  IF key # "" /\ existing # {}
         THEN \E row \in existing :
                requests' = [requests EXCEPT ![r].existing = row.examId,
                                             ![r].pc = "responded",
                                             ![r].response = [status |-> 200,
                                                              exam |-> row.examId]]
         ELSE requests' = [requests EXCEPT ![r].pc = "exam"]
  /\ UNCHANGED <<questions, context, pc, result, again, other, a, b, similar, policy,
                 text, normal, calls, metrics, domain, db>>

\* tx.insert(exams).values(...).returning(): the table gives the row the
\* next id.
InsertExam(r) ==
  /\ pc = "exams"
  /\ requests[r].pc = "exam"
  /\ db' = [db EXCEPT !.seq = @ + 1]
  /\ requests' = [requests EXCEPT
                    ![r].created = db.seq + 1,
                    ![r].tx.exams = @ \cup {[id |-> db.seq + 1, by |-> r]},
                    ![r].pc = "questions"]
  /\ UNCHANGED <<questions, context, pc, result, again, other, a, b, similar, policy,
                 text, normal, calls, metrics, domain>>

\* tx.insert(questions).values(questionsToInsert), when there are questions.
InsertQuestions(r) ==
  /\ pc = "exams"
  /\ requests[r].pc = "questions"
  /\ requests' = [requests EXCEPT
                    ![r].tx.questions =
                       @ \cup {[examId |-> requests[r].created, orderIndex |-> i] :
                                 i \in 0..(requests[r].examQuestions - 1)},
                    ![r].pc = "key"]
  /\ UNCHANGED <<questions, context, pc, result, again, other, a, b, similar, policy,
                 text, normal, calls, metrics, domain, db>>

\* if (idempotencyKey) tx.insert(idempotency_keys): the insert throws when
\* the key is there.
InsertKey(r) ==
  /\ pc = "exams"
  /\ requests[r].pc = "key"
  /\ LET key == requests[r].idempotencyKey
     IN  IF key = ""
         THEN requests' = [requests EXCEPT ![r].pc = "commit"]
         ELSE IF violatesUnique(db.idempotency_keys \cup requests[r].tx.idempotency_keys, key)
         THEN requests' = rolledBack(r)
         ELSE requests' = [requests EXCEPT
                             ![r].tx.idempotency_keys =
                                @ \cup {[key |-> key, examId |-> requests[r].created]},
                             ![r].pc = "commit"]
  /\ UNCHANGED <<questions, context, pc, result, again, other, a, b, similar, policy,
                 text, normal, calls, metrics, domain, db>>

\* The callback returns and the transaction commits: all its rows, unless a
\* key of them has been committed by another transaction meanwhile.
Commit(r) ==
  /\ pc = "exams"
  /\ requests[r].pc = "commit"
  /\ IF \E row \in requests[r].tx.idempotency_keys :
          violatesUnique(db.idempotency_keys, row.key)
     THEN /\ requests' = rolledBack(r)
          /\ db' = db
     ELSE /\ db' = [db EXCEPT
                      !.exams = @ \cup requests[r].tx.exams,
                      !.questions = @ \cup requests[r].tx.questions,
                      !.idempotency_keys = @ \cup requests[r].tx.idempotency_keys]
          /\ requests' = [requests EXCEPT
                            ![r].tx = NoWrites, ![r].pc = "responded",
                            ![r].response = [status |-> 200,
                                             exam |-> requests[r].created]]
  /\ UNCHANGED <<questions, context, pc, result, again, other, a, b, similar, policy,
                 text, normal, calls, metrics, domain>>

\* A statement of the transaction throws (the database is busy, the
\* connection is lost): catch (txErr), status 500.
TransactionFailed(r) ==
  /\ pc = "exams"
  /\ requests[r].pc \in {"begin", "exam", "questions", "key", "commit"}
  /\ requests' = rolledBack(r)
  /\ UNCHANGED <<questions, context, pc, result, again, other, a, b, similar, policy,
                 text, normal, calls, metrics, domain, db>>

NextExams ==
  \/ \E r \in DOMAIN requests : CheckKey(r)
  \/ \E r \in DOMAIN requests : InsertExam(r)
  \/ \E r \in DOMAIN requests : InsertQuestions(r)
  \/ \E r \in DOMAIN requests : InsertKey(r)
  \/ \E r \in DOMAIN requests : Commit(r)
  \/ \E r \in DOMAIN requests : TransactionFailed(r)

SpecExams == InitExams /\ [][NextExams]_vars

(***************************************************************************)
(* Properties.                                                             *)
(***************************************************************************)
returned == pc \in {"done", "resubmitted", "recalled"}

hasText(question) == "questionText" \in DOMAIN question

\* The text removeDuplicates compares for a question.
normOf(question) == normalizeText(questionTextOf(question))

\* The question at position i of the input is in the returned list.
kept(i) == \E k \in 1..Len(result.unique) : result.unique[k] = questions[i]

\* C1: unique.length + duplicatesRemoved equals the length of the input,
\* for every list and every context, in the first call and in the call on
\* its result.
CountInvariant ==
  /\ returned =>
       Len(result.unique) + result.duplicatesRemoved = Len(questions)
  /\ pc = "resubmitted" =>
       Len(again.unique) + again.duplicatesRemoved = Len(result.unique)

CountInvariantWitness ==
  /\ pc = "done"
  /\ result.duplicatesRemoved >= 2
  /\ Len(result.unique) >= 2

\* C2: removeDuplicates on the list a call returned, under the same context,
\* removes nothing and returns that list.
Idempotence ==
  pc = "resubmitted" =>
    /\ again.duplicatesRemoved = 0
    /\ again.unique = result.unique

IdempotenceWitness ==
  /\ pc = "resubmitted"
  /\ result.duplicatesRemoved >= 1
  /\ Len(result.unique) >= 2

\* C3: of two questions with identical non-empty questionText strings the
\* later one is never kept, whatever the characters of the text.
IdenticalTextsCollapse ==
  pc = "done" =>
    \A i, j \in 1..Len(questions) :
      (/\ i < j
       /\ hasText(questions[i]) /\ hasText(questions[j])
       /\ questions[i].questionText = questions[j].questionText
       /\ questions[i].questionText # <<>>)
      => ~kept(j)

\* C4 as claimed: Scenario A returns 2 unique questions.
ScenarioATwoUnique ==
  (pc = "done" /\ questions = ScenarioA /\ context = NoContext)
    => Len(result.unique) = 2

\* C4 as amended: Scenario A returns the first question alone; the exact
\* duplicate and the paraphrase are both removed.
ScenarioAOneUnique ==
  (pc = "done" /\ questions = ScenarioA /\ context = NoContext)
    => /\ result.unique = <<ScenarioA[1]>>
       /\ result.duplicatesRemoved = 2

ScenarioAWitness ==
  pc = "done" /\ questions = ScenarioA /\ context = NoContext

\* C5: unique is a subsequence of the input (the kept questions in their
\* input order), every kept question is similar to no kept question before
\* it, and every removed question is similar to a kept question before it.
OrderPreserved ==
  pc = "done" =>
    /\ \A k \in 1..Len(result.unique) :
         /\ result.unique[k].orderIndex \in 1..Len(questions)
         /\ result.unique[k] = questions[result.unique[k].orderIndex]
    /\ \A k, l \in 1..Len(result.unique) :
         k < l => result.unique[k].orderIndex < result.unique[l].orderIndex
    /\ \A j \in 1..Len(questions) :
         kept(j) <=>
           ~\E i \in 1..(j - 1) :
               /\ kept(i)
               /\ areSimilar(normOf(questions[j]), normOf(questions[i]), context)

OrderPreservedWitness ==
  /\ pc = "done"
  /\ Len(questions) = 3
  /\ ~kept(2)
  /\ kept(3)

\* C6: a question without text (questionText missing or "") is kept, and
\* dropping it from the input changes nothing for the other questions;
\* areSimilar is false when either argument is empty.
noText(question) == ~hasText(question) \/ question.questionText = <<>>

without(list, i) == [k \in 1..(Len(list) - 1) |-> IF k < i THEN list[k] ELSE list[k + 1]]

EmptyTextNeverMatches ==
  pc = "done" =>
    \A i \in 1..Len(questions) :
      noText(questions[i]) =>
        /\ kept(i)
        /\ removeDuplicates(without(questions, i), context).unique
             = SelectSeq(result.unique, LAMBDA q : q # questions[i])
        /\ \A j \in 1..Len(questions) :
             /\ ~areSimilar(normOf(questions[i]), normOf(questions[j]), context)
             /\ ~areSimilar(normOf(questions[j]), normOf(questions[i]), context)

EmptyTextWitness ==
  /\ pc = "done"
  /\ Len(questions) = 3
  /\ hasText(questions[1]) /\ questions[1].questionText = <<>>
  /\ hasText(questions[2]) /\ questions[2].questionText = <<>>
  /\ ~hasText(questions[3])
  /\ Len(result.unique) = 3

\* C7 as claimed: with difficulty "easy" removeDuplicates removes at least
\* as many questions as with difficulty "hard", the rest of the context and
\* the list being the same.
easyAndHard ==
  /\ pc = "recalled"
  /\ context.difficulty = "easy"
  /\ other.context = [context EXCEPT !.difficulty = "hard"]

DriverDifficultyMonotone ==
  easyAndHard => result.duplicatesRemoved >= other.result.duplicatesRemoved

\* C7 as amended: the same, for lists of at most three questions.
DriverDifficultyMonotoneUpTo3 ==
  (easyAndHard /\ Len(questions) <= 3) =>
    result.duplicatesRemoved >= other.result.duplicatesRemoved

DriverDifficultyWitness ==
  /\ easyAndHard
  /\ Len(questions) = 3
  /\ other.result.duplicatesRemoved = 1
  /\ result.duplicatesRemoved = 2

\* C17: every step leaves the input list as it was, and every element of
\* unique returned by a call is a record of its input, all fields (the text as
\* given, not normalized, and orderIndex) and missing fields as in the input.
PassThrough ==
  [][/\ questions' = questions
     /\ pc' = "done" =>
          \A k \in 1..Len(result'.unique) :
            \E i \in 1..Len(questions) : result'.unique[k] = questions[i]
     /\ pc' = "resubmitted" =>
          \A k \in 1..Len(again'.unique) :
            \E i \in 1..Len(result.unique) : again'.unique[k] = result.unique[i]]_vars

\* A question is removed, and the kept ones are a question whose text is not
\* its normal form and a question without questionText.
PassThroughWitness ==
  /\ pc = "done"
  /\ Len(questions) = 3
  /\ result.unique = <<questions[1], questions[3]>>
  /\ hasText(questions[1])
  /\ questions[1].questionText # normOf(questions[1])
  /\ ~hasText(questions[3])

\* Questions i and j of the input have no token in common.
noCommonToken(i, j) ==
  Range(tokenize(questionTextOf(questions[i])))
    \cap Range(tokenize(questionTextOf(questions[j]))) = {}

threeUnrelated ==
  /\ pc = "done"
  /\ context = NoContext
  /\ Len(questions) = 3
  /\ noCommonToken(1, 2) /\ noCommonToken(1, 3) /\ noCommonToken(2, 3)

\* Questions i and j do not both reach the base thresholds of the LCS ratio
\* (0.70) and of the edit-distance ratio (0.75).
farApart(i, j) ==
  \/ ~DGeq(lcsRatio(normOf(questions[i]), normOf(questions[j])), Lit(70))
  \/ ~DGeq(editDistanceRatio(normOf(questions[i]), normOf(questions[j])), Lit(75))

\* C16 as claimed: without a context, three questions that pairwise share no
\* token give duplicatesRemoved = 0.
UnrelatedKept ==
  threeUnrelated => result.duplicatesRemoved = 0

\* C16 as amended: the same for three questions that, pairwise, share no
\* token and do not reach both character-level thresholds.
UnrelatedFarApartKept ==
  (threeUnrelated /\ farApart(1, 2) /\ farApart(1, 3) /\ farApart(2, 3)) =>
    result.duplicatesRemoved = 0

\* One pair reaches the LCS threshold alone.
UnrelatedFarApartWitness ==
  /\ threeUnrelated /\ farApart(1, 2) /\ farApart(1, 3) /\ farApart(2, 3)
  /\ DGeq(lcsRatio(normOf(questions[1]), normOf(questions[2])), Lit(70))
  /\ Len(result.unique) = 3

(***************************************************************************)
(* Properties of areSimilar (SpecPair).                                    *)
(***************************************************************************)
field(ctx, f) == IF has(ctx, f) THEN <<ctx[f]>> ELSE <<>>

lengthRisk(ctx) ==
  IF field(ctx, "questionLength") = <<"short">> THEN 2
  ELSE IF field(ctx, "questionLength") = <<"long">> THEN 0 ELSE 1

difficultyRisk(ctx) ==
  IF field(ctx, "difficulty") = <<"easy">> THEN 2
  ELSE IF field(ctx, "difficulty") = <<"hard">> THEN 0 ELSE 1

strengthRisk(ctx) ==
  IF field(ctx, "modelStrength") = <<"weak">> THEN 2
  ELSE IF field(ctx, "modelStrength") = <<"strong">> THEN 0 ELSE 1

\* c2 is at least as duplicate-prone as c1 in every field, with the same
\* numQuestions.
atLeastAsProne(c2, c1) ==
  /\ field(c2, "numQuestions") = field(c1, "numQuestions")
  /\ lengthRisk(c2) >= lengthRisk(c1)
  /\ difficultyRisk(c2) >= difficultyRisk(c1)
  /\ strengthRisk(c2) >= strengthRisk(c1)

\* C8: a pair judged similar under a context is judged similar under every
\* context that is at least as duplicate-prone, numQuestions being equal.
RiskMonotone ==
  (pc = "compared" /\ similar) =>
    \A c2 \in AllContexts :
      atLeastAsProne(c2, context) => areSimilar(a, b, c2)

RiskMonotoneWitness ==
  /\ pc = "compared"
  /\ similar
  /\ a # b
  /\ context = ContextOf(<<"long">>, <<"hard">>, <<"strong">>, <<10>>)

\* C9: a pair judged similar with numQuestions = n2 is judged similar with
\* every n1 <= n2; no threshold decreases when numQuestions grows, and the
\* required number of votes does not depend on numQuestions.
BatchSizes == {-5, 0, 10, 50, 51, 80, 95, 200}

withCount(ctx, n) == [ctx EXCEPT !.numQuestions = n]

QuadLeq(s, t) ==
  /\ DGeq(t.jaccard, s.jaccard)
  /\ DGeq(t.lcs, s.lcs)
  /\ DGeq(t.edit, s.edit)
  /\ DGeq(t.concept, s.concept)

BatchMonotone ==
  (pc = "compared" /\ has(context, "numQuestions")) =>
    LET t2 == thresholds(context)
    IN  \A n1 \in BatchSizes :
          n1 <= context.numQuestions =>
            /\ similar => areSimilar(a, b, withCount(context, n1))
            /\ QuadLeq(thresholds(withCount(context, n1)), t2)
            /\ requiredMatches(withCount(context, n1)) = requiredMatches(context)

BatchMonotoneWitness ==
  /\ pc = "compared"
  /\ similar
  /\ a # b
  /\ has(context, "numQuestions") /\ context.numQuestions = 200
  /\ thresholds(withCount(context, 10)) # thresholds(context)

\* C10: areSimilar(a, b, ctx) = areSimilar(b, a, ctx), and each of the four
\* metrics has the same value for (a, b) and (b, a).
Symmetric ==
  pc = "compared" =>
    /\ similar = areSimilar(b, a, context)
    /\ similarityMetrics(a, b) = similarityMetrics(b, a)

SymmetricWitness ==
  /\ pc = "compared"
  /\ similar
  /\ Len(a) < Len(b)
  /\ normalizeText(a) # normalizeText(b)

\* C11: for non-empty texts the verdict of areSimilar is the same on the
\* texts and on their normal forms.
NormalizationIndependent ==
  (pc = "compared" /\ a # <<>> /\ b # <<>>) =>
    similar = areSimilar(normalizeText(a), normalizeText(b), context)

\* C13: for non-empty, non-identical texts areSimilar is true exactly when
\* at least R metrics reach their threshold, R being 1 when questionLength
\* is short or difficulty is easy or modelStrength is weak, and 2 otherwise
\* (also without a context), whatever numQuestions is.
MetricNames == {"jaccard", "lcs", "edit", "concept"}

votes(m, t) == Cardinality({k \in MetricNames : DGeq(m[k], t[k])})

highRisk(ctx) ==
  \/ field(ctx, "questionLength") = <<"short">>
  \/ field(ctx, "difficulty") = <<"easy">>
  \/ field(ctx, "modelStrength") = <<"weak">>

VotingRule ==
  (pc = "compared" /\ a # <<>> /\ b # <<>> /\ a # b) =>
    LET R == IF highRisk(context) THEN 1 ELSE 2
    IN  /\ similar = (votes(similarityMetrics(a, b), thresholds(context)) >= R)
        /\ requiredMatches(context) = R

\* One vote decides: a single metric reaches its threshold, and exactly.
VotingRuleWitness ==
  /\ pc = "compared"
  /\ a # <<>> /\ b # <<>> /\ a # b
  /\ has(context, "numQuestions")
  /\ highRisk(context)
  /\ similar
  /\ votes(similarityMetrics(a, b), thresholds(context)) = 1
  /\ similarityMetrics(a, b).edit = thresholds(context).edit

(***************************************************************************)
(* Properties of the thresholds (SpecPolicy).                              *)
(***************************************************************************)
Between(lo, x, hi) == DGeq(x, Lit(lo)) /\ DGeq(Lit(hi), x)

\* C12: under every context the thresholds the metrics are compared to lie
\* in Jaccard [0.20, 0.85], LCS [0.30, 0.90], Edit [0.40, 0.95], Concept
\* [0.20, 0.80].
ClampInvariant ==
  pc = "adjusted" =>
    /\ Between(20, policy.thresholds.jaccard, 85)
    /\ Between(30, policy.thresholds.lcs, 90)
    /\ Between(40, policy.thresholds.edit, 95)
    /\ Between(20, policy.thresholds.concept, 80)

\* The adjustments, with a very large numQuestions, take a threshold above
\* its upper bound and the clamp brings it back.
ClampInvariantWitness ==
  /\ pc = "adjusted"
  /\ has(context, "numQuestions")
  /\ context.numQuestions = 1000000000
  /\ ~DGeq(Lit(85), policy.adjusted.jaccard)
  /\ policy.thresholds.jaccard = Lit(85)

\* The additive table of the threshold policy, in three-hundredths: the base
\* values and the adjustments of each field.
IntQuad(j, l, e, c) == [jaccard |-> j, lcs |-> l, edit |-> e, concept |-> c]

tableBase == IntQuad(180, 210, 225, 150)

tableLength(ctx) ==
  IF field(ctx, "questionLength") = <<"short">> THEN IntQuad(-45, -30, -30, -30)
  ELSE IF field(ctx, "questionLength") = <<"long">> THEN IntQuad(30, 30, 30, 30)
  ELSE IntQuad(0, 0, 0, 0)

tableDifficulty(ctx) ==
  IF field(ctx, "difficulty") = <<"easy">> THEN IntQuad(-30, -30, -30, -30)
  ELSE IF field(ctx, "difficulty") = <<"hard">> THEN IntQuad(15, 15, 15, 15)
  ELSE IntQuad(0, 0, 0, 0)

tableStrength(ctx) ==
  IF field(ctx, "modelStrength") = <<"weak">> THEN IntQuad(-45, -45, -45, -30)
  ELSE IF field(ctx, "modelStrength") = <<"strong">> THEN IntQuad(15, 15, 15, 15)
  ELSE IntQuad(0, 0, 0, 0)

tableCount(ctx) ==
  IF has(ctx, "numQuestions") /\ ctx.numQuestions > 50
  THEN LET adj == Min(45, ctx.numQuestions - 50) IN IntQuad(adj, adj, adj, adj)
  ELSE IntQuad(0, 0, 0, 0)

tableSum(ctx) ==
  [k \in MetricNames |->
     tableBase[k] + tableLength(ctx)[k] + tableDifficulty(ctx)[k]
       + tableStrength(ctx)[k] + tableCount(ctx)[k]]

\* x is p/300 to within 2^-48.
Near(x, p) ==
  LET eps == <<0, 0, 0, 1, 0>>
  IN  DGeq(x, DSub(DDiv(p, 300), eps)) /\ DGeq(DAdd(DDiv(p, 300), eps), x)

\* C14 as claimed: the thresholds before the clamp are the values of the
\* additive table (the doubles of its decimal sums).
AdditiveTableExact ==
  pc = "adjusted" =>
    \A k \in MetricNames : policy.adjusted[k] = DDiv(tableSum(context)[k], 300)

\* C14 as amended: the thresholds before the clamp are the values of the
\* additive table to within the rounding of the double additions (2^-48).
AdditiveTable ==
  pc = "adjusted" =>
    \A k \in MetricNames : Near(policy.adjusted[k], tableSum(context)[k])

\* All four adjustments apply, the count below its cap.
AdditiveTableWitness ==
  /\ pc = "adjusted"
  /\ context = ContextOf(<<"short">>, <<"hard">>, <<"weak">>, <<94>>)
  /\ tableSum(context) = IntQuad(149, 194, 209, 149)
  /\ policy.adjusted = policy.thresholds

(***************************************************************************)
(* Properties of areSimilar under neutral contexts (SpecNeutral).          *)
(***************************************************************************)
\* C15: under a context none of whose fields adjusts anything the verdict is
\* the one without a context, the thresholds are the base thresholds and two
\* votes are required.
NeutralContext ==
  pc = "compared" =>
    /\ similar = areSimilar(a, b, NoContext)
    /\ thresholds(context) = baseThresholds
    /\ requiredMatches(context) = 2

NeutralContextWitness ==
  /\ pc = "compared"
  /\ context = ContextOf(<<"medium">>, <<"Easy">>, <<"medium">>, <<-5>>)
  /\ similar
  /\ a # b

(***************************************************************************)
(* Properties of normalizeText (SpecNormalize).                            *)
(***************************************************************************)
isUpperCase(c) == c \in Range(UpperCase) \cup {DoubleStruckR}

\* An uppercase letter that has a lowercase form.
isCasedUpperCase(c) == c \in Range(UpperCase)

\* No punctuation, no whitespace but single spaces between words, no space
\* at either end.
cleanAndSpaced(r) ==
  /\ \A i \in 1..Len(r) : ~isPunctuation(r[i])
  /\ \A i \in 1..Len(r) : isSpace(r[i]) => r[i] = " "
  /\ \A i \in 1..(Len(r) - 1) : ~(r[i] = " " /\ r[i + 1] = " ")
  /\ r # <<>> => (r[1] # " " /\ r[Len(r)] # " ")

\* C18 as claimed: the result of normalizeText has no uppercase letter, no
\* punctuation, no whitespace but single spaces between words and no space
\* at either end, and normalizeText returns it unchanged.
NormalForm ==
  /\ pc \in {"normalized", "renormalized"} =>
       /\ \A i \in 1..Len(normal.once) : ~isUpperCase(normal.once[i])
       /\ cleanAndSpaced(normal.once)
  /\ pc = "renormalized" => normal.twice = normal.once

\* C18 as amended: the same, for the uppercase letters that have a lowercase
\* form.
NormalFormCased ==
  /\ pc \in {"normalized", "renormalized"} =>
       /\ \A i \in 1..Len(normal.once) : ~isCasedUpperCase(normal.once[i])
       /\ cleanAndSpaced(normal.once)
  /\ pc = "renormalized" => normal.twice = normal.once

\* Punctuation between two whitespace characters, after an uppercase letter.
NormalFormWitness ==
  /\ pc = "renormalized"
  /\ text = <<"A", "\t", "?", " ">>
  /\ normal.once = <<"a">>

(***************************************************************************)
(* Properties of invocations side by side (SpecCalls).                     *)
(***************************************************************************)
\* C19: whatever the order of the steps of the two invocations, each returns
\* what removeDuplicates returns on its list and context alone.
NoSharedState ==
  pc = "calls" =>
    \A p \in 1..2 :
      calls[p].pc = "returned" =>
        calls[p].result = removeDuplicates(calls[p].questions, calls[p].context)

\* Invocation 1 has returned, a question removed, while invocation 2, on the
\* same list under another context, is in its loop with that question kept.
NoSharedStateWitness ==
  /\ pc = "calls"
  /\ calls[1].pc = "returned"
  /\ calls[1].result.duplicatesRemoved = 1
  /\ calls[2].pc = "running"
  /\ calls[2].questions = calls[1].questions
  /\ calls[2].context # calls[1].context
  /\ Len(calls[2].acc.uniqueQuestions) = 2

\* The accepted questions that question q is similar to under ctx.
matchesOf(q, accepted, ctx) ==
  {k \in 1..Len(accepted) : areSimilar(normOf(q), normOf(accepted[k]), ctx)}

\* C20: a pass of the loop appends the question to the accepted list, the
\* counter unchanged, when it is similar to no accepted question, and
\* otherwise leaves the list and adds exactly 1 to the counter; the call
\* returns the list and the counter.
GreedyRule ==
  [][\A p \in DOMAIN calls :
       LET c == calls[p]
           d == calls'[p]
       IN  /\ d.i = c.i + 1 =>
                IF matchesOf(c.questions[c.i], c.acc.uniqueQuestions, c.context) = {}
                THEN /\ d.acc.uniqueQuestions = Append(c.acc.uniqueQuestions, c.questions[c.i])
                     /\ d.acc.duplicatesCount = c.acc.duplicatesCount
                ELSE /\ d.acc.uniqueQuestions = c.acc.uniqueQuestions
                     /\ d.acc.duplicatesCount = c.acc.duplicatesCount + 1
           /\ (c.pc = "running" /\ d.pc = "returned") =>
                /\ c.i = Len(c.questions) + 1
                /\ d.result = [unique |-> c.acc.uniqueQuestions,
                               duplicatesRemoved |-> c.acc.duplicatesCount]]_vars

\* The third question has been discarded, counted once, and is similar to
\* both accepted questions.
GreedyRuleWitness ==
  /\ pc = "calls"
  /\ calls[1].i = 4
  /\ calls[1].acc.duplicatesCount = 1
  /\ Len(calls[1].acc.uniqueQuestions) = 2
  /\ matchesOf(calls[1].questions[3], calls[1].acc.uniqueQuestions, calls[1].context)
       = {1, 2}

(***************************************************************************)
(* Properties of the metrics (SpecMetrics).                                *)
(***************************************************************************)
inUnitInterval(x) == DGeq(x, DZero) /\ DGeq(DOne, x)

\* C21: each of the four metrics is in [0, 1] for every pair of texts, the
\* empty text, texts without a token and texts of different lengths
\* included.
MetricsInUnitInterval ==
  pc = "measured" => \A k \in MetricNames : inUnitInterval(metrics.sims[k])

\* A text with a token against a text of another length without one, the
\* edit ratio strictly between 0 and 1.
MetricsInUnitIntervalWitness ==
  /\ pc = "measured"
  /\ tokenize(a) # <<>>
  /\ tokenize(b) = <<>>
  /\ b # <<>>
  /\ Len(a) # Len(b)
  /\ metrics.sims.edit # DZero
  /\ metrics.sims.edit # DOne

\* The subsequences of s: what is left of s when some of its characters are
\* deleted.
RECURSIVE Subsequences(_)
Subsequences(s) ==
  IF s = <<>> THEN {<<>>}
  ELSE LET rest == Subsequences(Tail(s))
       IN  rest \cup {<<Head(s)>> \o r : r \in rest}

\* The length of a longest common subsequence of s and t.
longestCommon(s, t) ==
  LET common == Subsequences(s) \cap Subsequences(t)
  IN  CHOOSE n \in 0..Min(Len(s), Len(t)) :
        /\ \E c \in common : Len(c) = n
        /\ \A c \in common : Len(c) <= n

\* C22: lcsRatio(a, b) is the length of a longest common subsequence of the
\* characters of a and b divided by max(len(a), len(b)) for non-empty a and
\* b, and 0 when a or b is empty.
LcsIsLongestCommonSubsequence ==
  pc = "measured" =>
    metrics.sims.lcs =
      IF a = <<>> \/ b = <<>> THEN DZero
      ELSE DDiv(longestCommon(a, b), Max(Len(a), Len(b)))

\* A longest common subsequence that is a substring of neither text.
LcsWitness ==
  /\ pc = "measured"
  /\ a = <<"a", " ", "B">>
  /\ b = <<"a", "B", " ">>
  /\ longestCommon(a, b) = 2
  /\ metrics.sims.lcs = DDiv(2, 3)

\* The Levenshtein distance of s and t: the least number of insertions,
\* deletions and substitutions of one character that turn s into t.
RECURSIVE levenshtein(_, _)
levenshtein(s, t) ==
  IF s = <<>> THEN Len(t)
  ELSE IF t = <<>> THEN Len(s)
  ELSE IF Head(s) = Head(t) THEN levenshtein(Tail(s), Tail(t))
  ELSE 1 + Min(levenshtein(Tail(s), t),
               Min(levenshtein(s, Tail(t)), levenshtein(Tail(s), Tail(t))))

\* C23: editDistance(a, b) is the Levenshtein distance of a and b, and the
\* edit metric of areSimilar is 1 - editDistance(na, nb) / max(len(na),
\* len(nb)) on the normal forms na and nb as whole strings (0 when both are
\* empty, where there is no quotient).
EditIsLevenshtein ==
  /\ pc = "distance" => metrics.distance = levenshtein(a, b)
  /\ pc = "measured" =>
       LET na == normalizeText(a)
           nb == normalizeText(b)
           maxLen == Max(Len(na), Len(nb))
       IN  metrics.sims.edit =
             IF maxLen = 0 THEN DZero
             ELSE DSub(DOne, DDiv(levenshtein(na, nb), maxLen))

\* Two texts without a token, one edit apart in their normal forms and two
\* as they are.
EditIsLevenshteinWitness ==
  /\ pc = "measured"
  /\ a = <<" ", "a", "B">>
  /\ b = <<"a", "a">>
  /\ tokenize(a) = <<>> /\ tokenize(b) = <<>>
  /\ levenshtein(a, b) = 2
  /\ metrics.sims.edit = DDiv(1, 2)

(***************************************************************************)
(* Properties of the concept metric (SpecConcept).                         *)
(***************************************************************************)
\* The words of a normal form: its longest stretches without a space.
wordsOf(n) ==
  {SubSeq(n, p[1], p[2]) :
     p \in {q \in (1..Len(n)) \X (1..Len(n)) :
              /\ q[1] <= q[2]
              /\ \A k \in q[1]..q[2] : n[k] # " "
              /\ q[1] = 1 \/ n[q[1] - 1] = " "
              /\ q[2] = Len(n) \/ n[q[2] + 1] = " "}}

\* The key terms of a text: the words of five characters or more of its
\* normal form.
keyTermsOf(t) == {w \in wordsOf(normalizeText(t)) : Len(w) >= 5}

\* C24: the concept similarity is |A \cap B| / |A \cup B| for the sets A and
\* B of key terms of the two texts, a key term being a word of five
\* characters or more of the normal form; it is 0 when both sets are empty and
\* 0 when exactly one is.
ConceptIsJaccardOfKeyTerms ==
  pc = "measured" =>
    LET A == keyTermsOf(a)
        B == keyTermsOf(b)
    IN  /\ A \cup B # {} =>
             metrics.sims.concept = DDiv(Cardinality(A \cap B), Cardinality(A \cup B))
        /\ (A = {} \/ B = {}) => metrics.sims.concept = DZero

\* A word of four characters beside a key term, against two key terms.
ConceptWitness ==
  /\ pc = "measured"
  /\ a = <<"a", "a", "a", "a", " ", "a", "a", "a", "a", "b">>
  /\ Cardinality(keyTermsOf(a)) = 1
  /\ Cardinality(keyTermsOf(b)) = 2
  /\ metrics.sims.concept = DDiv(1, 2)

(***************************************************************************)
(* Properties of the returned list (SpecCollapse).                         *)
(***************************************************************************)
\* C25: no two questions of the returned list are similar, in either order
\* of the arguments, and every question that was discarded is similar to a
\* question of the returned list that precedes it in the input.
PairwiseDistinct ==
  returned =>
    /\ \A i \in 1..Len(result.unique) : \A j \in 1..Len(result.unique) :
         i # j => ~areSimilar(normOf(result.unique[i]), normOf(result.unique[j]), context)
    /\ \A i \in 1..Len(questions) :
         ~kept(i) =>
           \E j \in 1..(i - 1) :
             /\ kept(j)
             /\ areSimilar(normOf(questions[i]), normOf(questions[j]), context)

\* Two questions with text are returned and the one between them in the
\* input was discarded.
PairwiseDistinctWitness ==
  /\ returned
  /\ Len(questions) = 3
  /\ result.duplicatesRemoved = 1
  /\ \A k \in 1..2 : normOf(result.unique[k]) # <<>>
  /\ normOf(result.unique[1]) # normOf(result.unique[2])
  /\ kept(1) /\ ~kept(2) /\ kept(3)

\* C26: for a list that is not empty the returned list starts with the first
\* question of the input, so it is not empty and duplicatesRemoved is at most
\* the length of the input minus 1.
FirstKept ==
  (returned /\ questions # <<>>) =>
    /\ result.unique # <<>>
    /\ result.unique[1] = questions[1]
    /\ result.duplicatesRemoved <= Len(questions) - 1

\* Every question but the first was discarded, the second with another text
\* than the first.
FirstKeptWitness ==
  /\ returned
  /\ Len(questions) = 3
  /\ result.duplicatesRemoved = 2
  /\ result.unique = <<questions[1]>>
  /\ hasText(questions[1]) /\ hasText(questions[2])
  /\ questions[1].questionText # questions[2].questionText

\* C27: of two questions of the input whose texts have the same normal form,
\* not empty, at most one is in the returned list, under every context.
SameNormalFormCollapses ==
  returned =>
    \A i \in 1..Len(questions) : \A j \in 1..Len(questions) :
      (i < j /\ normOf(questions[i]) = normOf(questions[j]) /\ normOf(questions[i]) # <<>>)
        => ~(kept(i) /\ kept(j))

\* Two texts without a token that differ in case and punctuation, a question
\* without text between them; the later one was discarded.
SameNormalFormWitness ==
  /\ returned
  /\ context = NoContext
  /\ questions = <<MakeQuestion(<<"A", "?">>, 1), MakeQuestion(MissingText, 2),
                    MakeQuestion(<<"a">>, 3)>>
  /\ kept(1) /\ kept(2) /\ ~kept(3)

(***************************************************************************)
(* Properties of a second pass under another numQuestions (SpecRepass).    *)
(***************************************************************************)
\* C28: when the list removeDuplicates returned under c1 is handed to it again
\* under c2, with the questionLength, difficulty and modelStrength of c1 and
\* c2.numQuestions >= c1.numQuestions, the call returns the list as it is
\* and duplicatesRemoved is 0.
RepassRemovesNothing ==
  (/\ pc = "repassed"
   /\ \A f \in {"questionLength", "difficulty", "modelStrength"} :
        field(other.context, f) = field(context, f)
   /\ other.context.numQuestions >= context.numQuestions)
    => other.result = [unique |-> result.unique, duplicatesRemoved |-> 0]

\* The first pass discarded a question and kept two with different normal
\* forms; the second pass has a larger numQuestions and higher thresholds.
RepassWitness ==
  /\ pc = "repassed"
  /\ other.context.numQuestions > context.numQuestions
  /\ thresholds(other.context) # thresholds(context)
  /\ result.duplicatesRemoved = 1
  /\ Len(result.unique) = 2
  /\ normOf(result.unique[1]) # normOf(result.unique[2])
  /\ other.result.duplicatesRemoved = 0

(***************************************************************************)
(* Properties of generateDomainByDomainQuestions (SpecDomain).             *)
(***************************************************************************)
\* The question at the head of the batch is pushed by this step, and nothing
\* else changes in the accepted list.
headPushed == domain'.domainQuestions = Append(domain.domainQuestions, Head(domain.batch))

\* The question at the head of the batch is a duplicate of no accepted
\* question.
headIsNew == matchesOf(Head(domain.batch), domain.domainQuestions, domain.context) = {}

\* At every step at most targetCount questions are accepted, removeDuplicates
\* removes none of them, and at most max(5, 2 * targetCount) attempts were
\* made.
domainInvariant ==
  /\ Len(domain.domainQuestions) <= domain.targetCount
  /\ removeDuplicates(domain.domainQuestions, domain.context)
       = [unique |-> domain.domainQuestions, duplicatesRemoved |-> 0]
  /\ domain.attempts <= Max(5, 2 * domain.targetCount)

\* What is left of the loop: the attempts that remain, then the questions of
\* the batch that remain.
attemptsLeft(d) == Max(5, 2 * d.targetCount) - d.attempts

passesLeft(d) ==
  IF d.pc = "for" THEN Len(d.batch) + 2 ELSE IF d.pc = "while" THEN 1 ELSE 0

\* Every step takes the loop nearer to its end: it uses up an attempt, or a
\* question of the batch, or leaves the for loop or the while loop.
loopAdvances ==
  /\ attemptsLeft(domain') >= 0
  /\ \/ attemptsLeft(domain') < attemptsLeft(domain)
     \/ attemptsLeft(domain') = attemptsLeft(domain) /\ passesLeft(domain') < passesLeft(domain)
  /\ (domain.pc = "while" /\ attemptsLeft(domain) = 0) => domain'.pc = "end"

\* C29 as claimed: every question of every batch is pushed exactly when it is
\* a duplicate of no accepted question; at every step at most targetCount
\* questions are accepted and removeDuplicates removes none of them; and the
\* loop ends after at most max(5, 2 * targetCount) attempts, whatever the
\* attempts return or throw.
DomainUniquenessEveryCandidate ==
  /\ [][/\ (domain.pc = "for" /\ domain.batch # <<>>) =>
             /\ headPushed <=> headIsNew
             /\ ~headPushed => domain'.domainQuestions = domain.domainQuestions
         /\ loopAdvances]_vars
  /\ [](pc = "domain" => domainInvariant)

\* C29 as amended: the same for every question the for loop reaches while
\* fewer than targetCount questions are accepted; the questions of a batch
\* that come after the target is reached are left, duplicates or not.
DomainUniqueness ==
  /\ [][/\ (domain.pc = "for" /\ domain.batch # <<>>) =>
             IF Len(domain.domainQuestions) < domain.targetCount
             THEN /\ headPushed <=> headIsNew
                  /\ ~headPushed => domain'.domainQuestions = domain.domainQuestions
             ELSE domain'.domainQuestions = domain.domainQuestions
         /\ loopAdvances]_vars
  /\ [](pc = "domain" => domainInvariant)

\* The loop ended on its last attempt, one question short of the target.
DomainUniquenessWitness ==
  /\ pc = "domain"
  /\ domain.pc = "end"
  /\ domain.targetCount = 2
  /\ domain.attempts = 5
  /\ Len(domain.domainQuestions) = 1

(***************************************************************************)
(* Properties of POST /api/exams (SpecExams).                              *)
(***************************************************************************)
\* The committed exams of the requests that carry key.
examsOfKey(key) == {e \in db.exams : requests[e.by].idempotencyKey = key}

\* C30: for the requests that carry one idempotencyKey, in every
\* interleaving, at most one exam is committed, with its question rows and
\* one row of idempotency_keys; and a request that finds the key recorded
\* answers with the exam of that row and inserts nothing.
IdempotentCreate ==
  pc = "exams" =>
    /\ \A key \in IdempotencyKeys \ {""} :
         /\ Cardinality(examsOfKey(key)) <= 1
         /\ Cardinality({row \in db.idempotency_keys : row.key = key}) <= 1
         /\ \A e \in examsOfKey(key) :
              /\ [key |-> key, examId |-> e.id] \in db.idempotency_keys
              /\ Cardinality({q \in db.questions : q.examId = e.id})
                   = requests[e.by].examQuestions
    /\ \A q \in db.questions : \E e \in db.exams : e.id = q.examId
    /\ \A r \in DOMAIN requests :
         (requests[r].pc = "responded" /\ requests[r].existing # 0) =>
           /\ requests[r].response = [status |-> 200, exam |-> requests[r].existing]
           /\ \E e \in db.exams : e.id = requests[r].existing /\ e.by # r
           /\ requests[r].created = 0
           /\ requests[r].tx = NoWrites

\* Two requests with one key: the first created the exam with its two
\* questions, the second was answered with that exam.
IdempotentCreateWitness ==
  /\ pc = "exams"
  /\ requests[1].idempotencyKey = "retry-1"
  /\ requests[2].idempotencyKey = "retry-1"
  /\ requests[1].response = [status |-> 200, exam |-> requests[1].created]
  /\ requests[2].response = [status |-> 200, exam |-> requests[1].created]
  /\ requests[2].existing = requests[1].created
  /\ Cardinality(db.exams) = 1
  /\ Cardinality(db.questions) = 2

====
